---- MODULE Spec2Model ----
(***************************************************************************)
(* The conversational agent gateway of mcp_rag_llm: the MCP client         *)
(* (src/client.py), its Mongo-backed chat history                          *)
(* (src/utils/custom_mongo_history.py) and the two programs that own a     *)
(* client: the FastAPI application (src/main.py) and the interactive       *)
(* command line (client.py main / chat_loop).                              *)
(*                                                                         *)
(* Text is a sequence of tokens, so that formatting (an f-string, a        *)
(* template substitution) is concatenation or replacement of tokens and    *)
(* "contains" is a statement about tokens.  Python's None is the text      *)
(* None below, a token no real text holds.                                 *)
(***************************************************************************)
EXTENDS Integers, Sequences, FiniteSets, TLC

\* ------------------------------------------------------------------ bounds
\* turns started in one run of the program
MaxTurns == 2
\* tool calls one completion carries
MaxCalls == 2
\* (user, assistant) pairs earlier runs left in the store
MaxInitPairs == 11
\* the last day the clock reaches
MaxDay == 2
\* the rows the appointment table is ever given
MaxRows == 2

\* the last instant the clock of the appointment database reaches
MaxClock == 1
\* calls of manage_appointment made
MaxOpened == 2

\* ------------------------------------------------------- program constants
\* ConversationBufferWindowMemory(k=20)
K == 20

\* ------------------------------------------------------------------ values
None == <<"<None>">>

\* the requests the HTTP application has in flight at once
Slots == {1, 2}

\* A session id: one given by a caller, or one made by uuid.uuid4().
GivenId(n) == [src |-> "given", n |-> n]
Uuid(n) == [src |-> "uuid", n |-> n]
\* session_id = "test_user_001" of client.py main()
TestUser == GivenId(0)
\* the session ids HTTP callers send
RequestIds == {GivenId(1), GivenId(2)}

\* request_data["query"], already stripped; <<>> is the empty string
Query(n) == <<"question ", ToString(n)>>

\* str(e) of the exceptions the collaborators raise
ErrTransport == <<"connection error">>
ErrIndex == <<"list index out of range">>
ErrJsonType == <<"the JSON object must be str, bytes or bytearray, not NoneType">>
ErrPromptFile == <<"system prompt file not found: ", "system_prompt.txt">>
ErrValidation == <<"1 validation error for AIMessage content">>
ErrEmptyQuery == <<"400: Query cannot be empty">>

\* ------------------------------------------------- history store (MongoDB)
\* serialize_message: HumanMessage -> "human", AIMessage -> "ai",
\* SystemMessage -> "system"; any other message type raises.
serialize_message(message) ==
    [type |-> message.type, data |-> [content |-> message.content]]

deserialize_message(data) ==
    [type |-> data.type, content |-> data.data.content]

HumanMessage(content) == [type |-> "human", content |-> content]
AIMessage(content) == [type |-> "ai", content |-> content]

\* collection.find_one({"session_id": sid}) finds a record or nothing
HasRecord(coll, sid) == sid \in DOMAIN coll

\* _ensure_record: insert an empty record when none exists
ensure_record(coll, sid) ==
    IF HasRecord(coll, sid) THEN coll
    ELSE [s \in (DOMAIN coll) \cup {sid} |-> IF s = sid THEN <<>> ELSE coll[s]]

\* The messages property: every stored message of the record, in stored order.
messages(coll, sid) ==
    IF ~HasRecord(coll, sid) THEN <<>>
    ELSE [i \in 1..Len(coll[sid]) |-> deserialize_message(coll[sid][i])]

\* An append that writes with $set: the record holds the new message only.
add_message_set(coll, sid, message) ==
    IF HasRecord(coll, sid)
    THEN [coll EXCEPT ![sid] = <<serialize_message(message)>>]
    ELSE coll

\* add_message: update_one with $push and no upsert; a missing record matches
\* nothing and nothing is written.
add_message(coll, sid, message) ==
    IF HasRecord(coll, sid)
    THEN [coll EXCEPT ![sid] = Append(@, serialize_message(message))]
    ELSE coll

\* clear: update_one with $set messages = []
clear(coll, sid) ==
    IF HasRecord(coll, sid) THEN [coll EXCEPT ![sid] = <<>>] ELSE coll

\* The record of sid deleted from the collection by another program; find_one
\* then finds nothing, the case the messages property tests for.
remove_record(coll, sid) == [s \in (DOMAIN coll) \ {sid} |-> coll[s]]

\* --------------------------------------------------- message shaping
RoleOf(type) ==
    CASE type = "human" -> "user"
      [] type = "ai" -> "assistant"
      [] type = "system" -> "system"

\* safe_messages_to_dict: one {"role", "content"} dict per message, in order
\* (unknown message types are skipped; the store never yields one).
safe_messages_to_dict(msgs) ==
    [i \in 1..Len(msgs) |-> [role |-> RoleOf(msgs[i].type), content |-> msgs[i].content]]

\* The template: text with {{current_date}} and {{tomorrow}} placeholders.
Template == <<"You are a medical assistant. Today is ", "{{current_date}}",
              ", tomorrow is ", "{{tomorrow}}">>

DateText(day) == "date-" \o ToString(day)

\* get_system_prompt_from_file: each placeholder replaced by the value
\* rendered from datetime.now().
get_system_prompt_from_file(now) ==
    [i \in 1..Len(Template) |->
        CASE Template[i] = "{{current_date}}" -> DateText(now)
          [] Template[i] = "{{tomorrow}}" -> DateText(now + 1)
          [] OTHER -> Template[i]]

\* A step 3 that inserts a system message when there is none and leaves one
\* that is there as it is.
WithSystemPrompt_insert_only(msgs, prompt) ==
    IF msgs = <<>> \/ msgs[1].role # "system"
    THEN <<[role |-> "system", content |-> prompt]>> \o msgs
    ELSE msgs

\* Steps 3 and 4 of process_query: the system message inserted or refreshed,
\* then the user message appended.
WithSystemPrompt(msgs, prompt) ==
    IF msgs = <<>> \/ msgs[1].role # "system"
    THEN <<[role |-> "system", content |-> prompt]>> \o msgs
    ELSE [msgs EXCEPT ![1].content = prompt]

BuildMessages(history, prompt, query) ==
    Append(WithSystemPrompt(safe_messages_to_dict(history), prompt),
           [role |-> "user", content |-> query])

\* f"抱歉，处理您的请求时发生了错误: {str(e)}"
Apology(e) == <<"Sorry, an error occurred while processing your request: ">> \o e

\* f"工具执行失败: {str(e)}"
ToolFailure(e) == <<"tool execution failed: ">> \o e

\* "工具执行完成", the text used when a tool returns no content
ToolDoneText == <<"tool execution finished">>

\* ------------------------------------------------------------------- state
VARIABLES
    mode,         \* which program owns the client: "http" (main.py) or "cli" (client.py main)
    app,          \* where that program is in its life
    client,       \* the MCPClient object: exit_stack, session, memory_id
    channel,      \* the stdio channel to the tool process: open, times acquired, times released
    collection,   \* the mcp_memory collection: session id -> stored messages
    committedBy,  \* for each stored message, the session id of the request whose turn wrote it
    registry,     \* the tool names the tool process lists at the moment
    today,        \* datetime.now(), in days
    uuids,        \* the number of uuid.uuid4() calls made
    started,      \* the number of turns started
    running,      \* the coroutine the event loop is running (0: none, all are suspended)
    turn,         \* per request slot: the locals of chat_endpoint / process_query
    appointment,  \* the appointment table of the MySQL database: a set of rows
    lastrowid,    \* the table's AUTO_INCREMENT counter
    clock,        \* NOW() and datetime.now(), in units of the token's lifetime
    connection,   \* per database connection: the locals of manage_appointment
    opened        \* the number of get_connection() calls made

vars == <<mode, app, client, channel, collection, committedBy, registry, today,
          uuids, started, running, turn, appointment, lastrowid, clock, connection,
          opened>>

\* The state of the agent gateway, and that of the appointment tool.
agent == <<mode, app, client, channel, collection, committedBy, registry, today,
           uuids, started, running, turn>>

clinic == <<appointment, lastrowid, clock, connection, opened>>

NoSession == [src |-> "none", n |-> 0]

IdleTurn ==
    [pc |-> "idle", query |-> <<>>, session_id |-> NoSession,
     available_tools |-> <<>>, history |-> <<>>, origins |-> <<>>,
     messages |-> <<>>, tool_calls |-> <<>>, idx |-> 0,
     requests |-> <<>>, invoked |-> <<>>, committed |-> 0,
     final_output |-> None, result |-> [kind |-> "none", text |-> <<>>]]

\* The history earlier runs of client.py main() left under "test_user_001".
PriorHistory(n) ==
    [i \in 1..(2 * n) |->
        IF i % 2 = 1
        THEN serialize_message(HumanMessage(<<"old question ", ToString((i + 1) \div 2)>>))
        ELSE serialize_message(AIMessage(<<"old answer ", ToString(i \div 2)>>))]

\* A record that another writer of the collection began with a system message
\* (add_message stores one as type "system"), rendered on an earlier day.
SystemMessage(content) == [type |-> "system", content |-> content]

SeededHistory ==
    <<serialize_message(SystemMessage(get_system_prompt_from_file(0)))>> \o PriorHistory(1)

\* ---- the appointment tool (src/utils/appointment_tool.py) ----

\* Every call of manage_appointment opens a connection of its own; two calls
\* can be under way at once.
Connections == {1, 2}

\* The id-card pattern ^\d{15}(\d{2}[0-9xX])?$ : fifteen digits, optionally
\* followed by two digits and a digit or x or X.
IdCardShort == 15

IdCardTail == 3

\* timedelta(hours=24): the clock counts in units of a token's lifetime.
TokenLifetime == 1

Digits == {"0", "1", "2", "3", "4", "5", "6", "7", "8", "9"}

\* Texts that are matched against the pattern are sequences of characters; the
\* empty text stands for an argument left at None (both are falsy in Python).
id_card_match(id_card) ==
    LET n == Len(id_card) IN
    /\ n \in {IdCardShort, IdCardShort + IdCardTail}
    /\ \A i \in 1..(n - 1) : id_card[i] \in Digits
    /\ id_card[n] \in (IF n = IdCardShort THEN Digits ELSE Digits \cup {"x", "X"})

NoArg == ""

NoDepartment == "<None>"

\* uuid4().hex: a text no other record carries; named after the insert
\* that stores it.
Token(n) == <<"token", n>>

NoToken == <<>>

\* What a connection is doing: nothing (with the text the last call returned),
\* or it has run its SELECT and its INSERT / UPDATE / DELETE is still to come.
\* `call` labels the call it serves or served last: the n-th of the run.
NoRow == [id |-> 0]

IdleCall ==
    [pc |-> "idle", args |-> [action |-> "none"], existing |-> NoRow,
     result |-> "none", call |-> 0]

\* The state the programs start in, but for the store and the appointment table.
Boot ==
    /\ app = "boot"
    /\ client = [exit_stack |-> <<>>, session |-> "None", memory_id |-> NoSession]
    /\ channel = [open |-> FALSE, acquired |-> 0, released |-> 0]
    /\ registry = <<"lookup">>
    /\ today = 1
    /\ uuids = 0
    /\ started = 0
    /\ running = 0
    /\ turn = [t \in Slots |-> IdleTurn]
    /\ clock = 0
    /\ connection = [c \in Connections |-> IdleCall]
    /\ opened = 0

\* client.py main(): the store holds no record for "test_user_001", or the
\* record earlier runs left (empty, or MaxInitPairs turns long).
Init ==
    /\ mode = "cli"
    /\ Boot
    /\ appointment = {}
    /\ lastrowid = 0
    /\ \/ /\ collection = <<>>
          /\ committedBy = <<>>
       \/ \E n \in {0, MaxInitPairs} :
             /\ collection = [s \in {TestUser} |-> PriorHistory(n)]
             /\ committedBy = [s \in {TestUser} |-> [i \in 1..(2 * n) |-> TestUser]]

\* client.py main() again: no record, the record of one earlier turn, or a
\* record that starts with a system message.
InitChat ==
    /\ mode = "cli"
    /\ Boot
    /\ appointment = {}
    /\ lastrowid = 0
    /\ \/ /\ collection = <<>>
          /\ committedBy = <<>>
       \/ \E h \in {PriorHistory(1), SeededHistory} :
             /\ collection = [s \in {TestUser} |-> h]
             /\ committedBy = [s \in {TestUser} |-> [i \in 1..Len(h) |-> TestUser]]

\* main.py: the client's session id is a fresh uuid, which has no record.
InitHttp ==
    /\ mode = "http"
    /\ Boot
    /\ appointment = {}
    /\ lastrowid = 0
    /\ collection = <<>>
    /\ committedBy = <<>>

\* --------------------------------------------------------- client lifecycle
\* A constructor that checks the API key last, after the history object has
\* been made.
MCPClient_init_key_last(keyPresent, session_id) ==
    /\ app = "boot"
    /\ LET sid == IF session_id = NoSession THEN Uuid(uuids + 1) ELSE session_id IN
       /\ app' = IF keyPresent THEN "constructed" ELSE "config_error"
       /\ uuids' = IF session_id = NoSession THEN uuids + 1 ELSE uuids
       /\ client' = [client EXCEPT !.memory_id = sid]
       /\ collection' = ensure_record(collection, sid)
       /\ committedBy' = ensure_record(committedBy, sid)
    /\ UNCHANGED <<mode, channel, registry, today, started, running, turn>>
    /\ UNCHANGED clinic

\* MCPClient.__init__: the API key is checked first; then memory_id is the
\* session id passed in or a fresh uuid, and the history object creates the
\* session's record when it is absent.
MCPClient_init(keyPresent, session_id) ==
    /\ app = "boot"
    /\ IF ~keyPresent
       THEN /\ app' = "config_error"
            /\ UNCHANGED <<client, collection, committedBy, uuids>>
       ELSE LET sid == IF session_id = NoSession THEN Uuid(uuids + 1) ELSE session_id IN
            /\ app' = "constructed"
            /\ uuids' = IF session_id = NoSession THEN uuids + 1 ELSE uuids
            /\ client' = [client EXCEPT !.memory_id = sid]
            /\ collection' = ensure_record(collection, sid)
            /\ committedBy' = ensure_record(committedBy, sid)
    /\ UNCHANGED <<mode, channel, registry, today, started, running, turn>>
    /\ UNCHANGED clinic

\* app.state.client = MCPClient(server_script_path)      (main.py)
\* client = MCPClient(server_script_path, session_id="test_user_001")   (client.py)
Construct ==
    \E keyPresent \in BOOLEAN :
        MCPClient_init(keyPresent, IF mode = "http" THEN NoSession ELSE TestUser)

ConnectSteps == <<"stdio_client", "ClientSession", "initialize", "list_tools">>

\* connect_to_server, failing at step failAt of ConnectSteps (0: at none).
\* A context whose entry raises is not put on the exit stack; self.session is
\* assigned once ClientSession is entered.
connect_to_server(c, ch, failAt) ==
    LET stdioIn == failAt = 0 \/ failAt > 1
        sessIn == failAt = 0 \/ failAt > 2
    IN [client |-> [c EXCEPT
                      !.exit_stack = @ \o (IF stdioIn THEN <<"stdio_client">> ELSE <<>>)
                                       \o (IF sessIn THEN <<"ClientSession">> ELSE <<>>),
                      !.session = IF sessIn THEN "ClientSession" ELSE @],
        channel |-> IF stdioIn
                    THEN [ch EXCEPT !.open = TRUE, !.acquired = @ + 1]
                    ELSE ch,
        raised |-> failAt # 0]

InStack(stack, x) == \E i \in 1..Len(stack) : stack[i] = x

\* cleanup: exit_stack.aclose() exits every entered context, last first.
cleanup(c, ch) ==
    [client |-> [c EXCEPT !.exit_stack = <<>>],
     channel |-> IF InStack(c.exit_stack, "stdio_client")
                 THEN [ch EXCEPT !.open = FALSE, !.released = @ + 1]
                 ELSE ch]

\* lifespan, up to its yield: __aenter__ runs connect_to_server; when it
\* raises the generator ends there and the code after the yield never runs.
lifespan_startup ==
    /\ mode = "http" /\ app = "constructed"
    /\ \E failAt \in 0..Len(ConnectSteps) :
          LET r == connect_to_server(client, channel, failAt) IN
          /\ client' = r.client
          /\ channel' = r.channel
          /\ app' = IF r.raised THEN "startup_failed" ELSE "serving"
    /\ UNCHANGED <<mode, collection, committedBy, registry, today, uuids, started,
                   running, turn>>
    /\ UNCHANGED clinic

AllIdle == \A t \in Slots : turn[t].pc = "idle"

\* lifespan, from its yield on: __aexit__ runs cleanup, unless the yield
\* itself raises (the application is torn down with an exception), which the
\* generator does not catch.
lifespan_shutdown ==
    /\ mode = "http" /\ app = "serving" /\ AllIdle
    /\ \E thrown \in BOOLEAN :
          IF thrown
          THEN UNCHANGED <<client, channel>>
          ELSE LET r == cleanup(client, channel) IN
               /\ client' = r.client
               /\ channel' = r.channel
    /\ app' = "stopped"
    /\ UNCHANGED <<mode, collection, committedBy, registry, today, uuids, started,
                   running, turn>>
    /\ UNCHANGED clinic

\* main() of client.py: connect_to_server inside try; when it raises, the
\* finally clause runs cleanup and the program ends.
main_connect ==
    /\ mode = "cli" /\ app = "constructed"
    /\ \E failAt \in 0..Len(ConnectSteps) :
          LET r == connect_to_server(client, channel, failAt)
              f == cleanup(r.client, r.channel)
          IN IF r.raised
             THEN /\ client' = f.client
                  /\ channel' = f.channel
                  /\ app' = "stopped"
             ELSE /\ client' = r.client
                  /\ channel' = r.channel
                  /\ app' = "chatting"
    /\ UNCHANGED <<mode, collection, committedBy, registry, today, uuids, started,
                   running, turn>>
    /\ UNCHANGED clinic

\* ------------------------------------------------ the collaborators' answers
\* A tool call of a completion: id, function.name, function.arguments (raw).
ArgValid == "{\"x\": 1}"
ArgMalformed == "{x"
ArgAbsent == "<None>"

CallKinds ==
    {[name |-> "lookup", arguments |-> ArgValid],
     [name |-> "ghost", arguments |-> ArgMalformed],
     [name |-> "lookup", arguments |-> ArgAbsent]}

CallId(i) == "call_" \o ToString(i)

\* The tool_calls lists a completion can carry: 1..MaxCalls calls, ids distinct.
ToolCallLists(max) ==
    UNION {{[i \in 1..n |-> [id |-> CallId(i), name |-> f[i].name,
                             arguments |-> f[i].arguments]] :
               f \in [1..n -> CallKinds]} : n \in 1..max}

\* What chat.completions.create does: raises, answers with no choices, or
\* answers with one assistant message (content may be None; tool_calls may be
\* None or empty, written <<>>).
FirstCompletions(max) ==
    {[kind |-> "raise", err |-> ErrTransport, content |-> None, tool_calls |-> <<>>],
     [kind |-> "no_choices", err |-> ErrIndex, content |-> None, tool_calls |-> <<>>]}
    \cup {[kind |-> "message", err |-> <<>>, content |-> c, tool_calls |-> <<>>] :
             c \in {<<"a1">>, None}}
    \cup {[kind |-> "message", err |-> <<>>, content |-> None, tool_calls |-> tc] :
             tc \in ToolCallLists(max)}

SecondCompletions ==
    {[kind |-> "raise", err |-> ErrTransport, content |-> None],
     [kind |-> "no_choices", err |-> ErrIndex, content |-> None],
     [kind |-> "message", err |-> <<>>, content |-> <<"a2">>],
     [kind |-> "message", err |-> <<>>, content |-> None]}

\* json.loads(tool_call.function.arguments)
json_loads(arguments) ==
    CASE arguments = ArgValid -> [raised |-> "no", value |-> "{x: 1}"]
      [] arguments = ArgAbsent -> [raised |-> "TypeError", value |-> "{}"]
      [] OTHER -> [raised |-> "JSONDecodeError", value |-> "{}"]

\* What session.call_tool does: returns content with text, returns no
\* content, or raises.
ToolOutcomes ==
    {[kind |-> "text", text |-> <<"tool output">>],
     [kind |-> "empty", text |-> <<>>],
     [kind |-> "raise", text |-> ErrTransport]}

\* What the executor answers for a name it has no tool for: the call raises,
\* or it returns an error result whose content is the text of the rejection.
ErrUnknownTool == <<"Unknown tool">>

ToolRejections ==
    {[kind |-> "raise", text |-> ErrUnknownTool],
     [kind |-> "text", text |-> ErrUnknownTool]}

Listed(name, tools) == \E i \in 1..Len(tools) : tools[i] = name

\* The outcomes of session.call_tool(name, args) with the tools the executor
\* has at the moment.
ExecutorOutcomes(name, tools) ==
    IF Listed(name, tools) THEN ToolOutcomes ELSE ToolRejections

\* ------------------------------------------------------------ process_query
Raised(t, e) ==
    [turn EXCEPT ![t].pc = "done", ![t].result = [kind |-> "raised", text |-> e]]

LowestIdle(t) ==
    /\ turn[t].pc = "idle"
    /\ \A u \in Slots : u < t => turn[u].pc # "idle"

\* chat_endpoint up to the first suspension of process_query: the query is
\* stripped and checked, session_id is read from the request (a uuid when the
\* request has none), and process_query(query) awaits list_tools.
chat_endpoint(t, query, sid) ==
    /\ mode = "http" /\ app = "serving" /\ running = 0
    /\ LowestIdle(t) /\ started < MaxTurns
    /\ started' = started + 1
    /\ uuids' = uuids + 1
    /\ LET session_id == IF sid = NoSession THEN Uuid(uuids + 1) ELSE sid IN
       turn' = [turn EXCEPT ![t] =
                  IF query = <<>>
                  THEN [IdleTurn EXCEPT !.pc = "done", !.session_id = session_id,
                                        !.result = [kind |-> "rejected", text |-> ErrEmptyQuery]]
                  ELSE [IdleTurn EXCEPT !.pc = "await_list_tools", !.query = query,
                                        !.session_id = session_id]]
    /\ running' = IF query = <<>> THEN t ELSE 0
    /\ UNCHANGED <<mode, app, client, channel, collection, committedBy, registry, today>>
    /\ UNCHANGED clinic

\* A step 1 that offers the tools the client saw when it connected instead of
\* those list_tools returns now.
list_tools_cached(t, ok, tools) ==
    /\ turn[t].pc = "await_list_tools" /\ running = 0
    /\ running' = t
    /\ IF ok
       THEN /\ registry' = tools
            /\ turn' = [turn EXCEPT ![t].pc = "load_history",
                                    ![t].available_tools = <<"lookup">>]
       ELSE /\ turn' = Raised(t, ErrTransport)
            /\ UNCHANGED registry
    /\ UNCHANGED <<mode, app, client, channel, collection, committedBy, today,
                   uuids, started>>
    /\ UNCHANGED clinic

\* Step 1: list_tools answers, or raises (outside the try of process_query).
list_tools_done(t, ok, tools) ==
    /\ turn[t].pc = "await_list_tools" /\ running = 0
    /\ running' = t
    /\ IF ok
       THEN /\ registry' = tools
            /\ turn' = [turn EXCEPT ![t].pc = "load_history",
                                    ![t].available_tools = tools]
       ELSE /\ turn' = Raised(t, ErrTransport)
            /\ UNCHANGED registry
    /\ UNCHANGED <<mode, app, client, channel, collection, committedBy, today,
                   uuids, started>>
    /\ UNCHANGED clinic

\* A read that creates the session's record when it is absent.
load_history_creating(t, ok) ==
    /\ turn[t].pc = "load_history" /\ running = t
    /\ IF ok
       THEN /\ collection' = ensure_record(collection, client.memory_id)
            /\ committedBy' = ensure_record(committedBy, client.memory_id)
            /\ turn' = [turn EXCEPT
                          ![t].pc = "render_prompt",
                          ![t].history = messages(collection, client.memory_id),
                          ![t].origins = IF HasRecord(committedBy, client.memory_id)
                                         THEN committedBy[client.memory_id] ELSE <<>>]
       ELSE /\ turn' = Raised(t, ErrTransport)
            /\ UNCHANGED <<collection, committedBy>>
    /\ UNCHANGED <<mode, app, client, channel, registry, today, uuids, started, running>>
    /\ UNCHANGED clinic

\* Step 2: history_messages = self.memory.chat_memory.messages, the messages
\* property of the history object (find_one may raise).
load_history(t, ok) ==
    /\ turn[t].pc = "load_history" /\ running = t
    /\ IF ok
       THEN /\ turn' = [turn EXCEPT
                          ![t].pc = "render_prompt",
                          ![t].history = messages(collection, client.memory_id),
                          ![t].origins = IF HasRecord(committedBy, client.memory_id)
                                         THEN committedBy[client.memory_id] ELSE <<>>]
       ELSE turn' = Raised(t, ErrTransport)
    /\ UNCHANGED <<mode, app, client, channel, collection, committedBy, registry, today,
                   uuids, started, running>>
    /\ UNCHANGED clinic

\* Steps 3 and 4: the prompt is rendered now (a missing file raises), put
\* first, and the user message is appended.
render_prompt(t, fileExists, now) ==
    /\ turn[t].pc = "render_prompt" /\ running = t
    /\ IF fileExists
       THEN /\ today' = now
            /\ turn' = [turn EXCEPT
                          ![t].pc = "first_completion",
                          ![t].messages = BuildMessages(turn[t].history,
                                              get_system_prompt_from_file(now),
                                              turn[t].query)]
       ELSE /\ turn' = Raised(t, ErrPromptFile)
            /\ UNCHANGED today
    /\ UNCHANGED <<mode, app, client, channel, collection, committedBy, registry,
                   uuids, started, running>>
    /\ UNCHANGED clinic

\* Steps 6 to 9: the first completion (a blocking call), the assistant
\* message appended, and the branch on tool_calls.
AfterFirstCompletion(tn, r) ==
    LET req == [kind |-> "tool_selection", messages |-> tn.messages,
                tools |-> tn.available_tools, answer |-> r.kind, err |-> r.err]
        logged == [tn EXCEPT !.requests = Append(@, req)]
    IN IF r.kind # "message"
       THEN [logged EXCEPT !.pc = "commit", !.final_output = Apology(r.err)]
       ELSE LET withAsst == [logged EXCEPT
                               !.messages = Append(@, [role |-> "assistant",
                                                       content |-> r.content,
                                                       tool_calls |-> r.tool_calls]),
                               !.tool_calls = r.tool_calls]
            IN IF r.tool_calls # <<>>
               THEN [withAsst EXCEPT !.pc = "dispatch_tool", !.idx = 1]
               ELSE [withAsst EXCEPT !.pc = "commit", !.final_output = r.content]

first_completion(t, r) ==
    /\ turn[t].pc = "first_completion" /\ running = t
    /\ turn' = [turn EXCEPT ![t] = AfterFirstCompletion(turn[t], r)]
    /\ UNCHANGED <<mode, app, client, channel, collection, committedBy, registry, today,
                   uuids, started, running>>
    /\ UNCHANGED clinic

\* The head of the loop body: the arguments are parsed (JSONDecodeError gives
\* {}; any other exception leaves the loop for the turn-level handler) and
\* call_tool is awaited.
AfterParse(tn) ==
    LET tool_call == tn.tool_calls[tn.idx]
        parsed == json_loads(tool_call.arguments)
    IN IF parsed.raised = "TypeError"
       THEN [tn EXCEPT !.pc = "commit", !.final_output = Apology(ErrJsonType)]
       ELSE [tn EXCEPT !.pc = "await_tool",
                       !.invoked = Append(@, [name |-> tool_call.name,
                                              args |-> parsed.value])]

dispatch_tool(t) ==
    /\ turn[t].pc = "dispatch_tool" /\ running = t
    /\ turn' = [turn EXCEPT ![t] = AfterParse(turn[t])]
    /\ running' = IF turn'[t].pc = "await_tool" THEN 0 ELSE t
    /\ UNCHANGED <<mode, app, client, channel, collection, committedBy, registry, today,
                   uuids, started>>
    /\ UNCHANGED clinic

\* The rest of the loop body: the tool-result message for this call, from the
\* result or from the exception, and on to the next call or to step 10.
ToolResultMessage(tool_call, o) ==
    [role |-> "tool", tool_call_id |-> tool_call.id,
     content |-> CASE o.kind = "text" -> o.text
                   [] o.kind = "empty" -> ToolDoneText
                   [] OTHER -> ToolFailure(o.text)]

\* A loop body that puts each tool-result right after the assistant message,
\* ahead of the results of the earlier calls.
AfterTool_newest_first(tn, o) ==
    LET n == Len(tn.messages) - (tn.idx - 1) IN
    [tn EXCEPT !.messages = SubSeq(@, 1, n)
                            \o <<ToolResultMessage(tn.tool_calls[tn.idx], o)>>
                            \o SubSeq(@, n + 1, Len(@)),
               !.idx = @ + 1,
               !.pc = IF tn.idx = Len(tn.tool_calls) THEN "second_completion"
                      ELSE "dispatch_tool"]

AfterTool(tn, o) ==
    [tn EXCEPT !.messages = Append(@, ToolResultMessage(tn.tool_calls[tn.idx], o)),
               !.idx = @ + 1,
               !.pc = IF tn.idx = Len(tn.tool_calls) THEN "second_completion"
                      ELSE "dispatch_tool"]

tool_done(t, o) ==
    /\ turn[t].pc = "await_tool" /\ running = 0
    /\ o \in ExecutorOutcomes(turn[t].tool_calls[turn[t].idx].name, registry)
    /\ turn' = [turn EXCEPT ![t] = AfterTool(turn[t], o)]
    /\ running' = t
    /\ UNCHANGED <<mode, app, client, channel, collection, committedBy, registry, today,
                   uuids, started>>
    /\ UNCHANGED clinic

\* Step 10: the second completion, with the message list and no tools.
AfterSecondCompletion(tn, r) ==
    LET req == [kind |-> "synthesis", messages |-> tn.messages, tools |-> <<>>,
                answer |-> r.kind, err |-> r.err]
    IN
    [tn EXCEPT !.requests = Append(@, req),
               !.pc = "commit",
               !.final_output = IF r.kind = "message" THEN r.content ELSE Apology(r.err)]

second_completion(t, r) ==
    /\ turn[t].pc = "second_completion" /\ running = t
    /\ turn' = [turn EXCEPT ![t] = AfterSecondCompletion(turn[t], r)]
    /\ UNCHANGED <<mode, app, client, channel, collection, committedBy, registry, today,
                   uuids, started, running>>
    /\ UNCHANGED clinic

\* Steps 11 and 12: add_user_message(query), add_ai_message(final_output),
\* return final_output.  Either write may raise (storeFails names which, 0:
\* none), and AIMessage(content=None) raises when the output is None; what was
\* written before stays written.
CommitWrites(storeFails, final_output) ==
    CASE storeFails = 1 -> 0
      [] storeFails = 2 -> 1
      [] final_output = None -> 1
      [] OTHER -> 2

CommitError(storeFails, final_output) ==
    CASE storeFails # 0 -> ErrTransport
      [] final_output = None -> ErrValidation
      [] OTHER -> <<>>

Written(coll, sid, n, first, second) ==
    CASE n = 0 -> coll
      [] n = 1 -> add_message(coll, sid, first)
      [] OTHER -> add_message(add_message(coll, sid, first), sid, second)

commit(t, storeFails) ==
    /\ turn[t].pc = "commit" /\ running = t
    /\ LET tn == turn[t]
           n == CommitWrites(storeFails, tn.final_output)
           sid == client.memory_id
       IN /\ collection' = Written(collection, sid, n, HumanMessage(tn.query),
                                   AIMessage(tn.final_output))
          /\ committedBy' =
                IF HasRecord(committedBy, sid)
                THEN [committedBy EXCEPT ![sid] = @ \o [i \in 1..n |-> tn.session_id]]
                ELSE committedBy
          /\ turn' = [turn EXCEPT
                        ![t].pc = "done",
                        ![t].committed = n,
                        ![t].result = IF n = 2
                                      THEN [kind |-> "returned", text |-> tn.final_output]
                                      ELSE [kind |-> "raised",
                                            text |-> CommitError(storeFails, tn.final_output)]]
    /\ UNCHANGED <<mode, app, client, channel, registry, today, uuids, started, running>>
    /\ UNCHANGED clinic

\* A caller that lets the exception of a failed turn end it.
reply_fatal(t) ==
    /\ turn[t].pc = "done" /\ running = t
    /\ turn' = [turn EXCEPT ![t] = IdleTurn]
    /\ running' = 0
    /\ app' = IF turn[t].result.kind = "raised" THEN "left_loop" ELSE app
    /\ UNCHANGED <<mode, client, channel, collection, committedBy, registry, today,
                   uuids, started>>
    /\ UNCHANGED clinic

\* The caller takes the result: chat_endpoint answers the request (success
\* with the text, or error with str(e)); chat_loop prints and reads on.
reply(t) ==
    /\ turn[t].pc = "done" /\ running = t
    /\ turn' = [turn EXCEPT ![t] = IdleTurn]
    /\ running' = 0
    /\ UNCHANGED <<mode, app, client, channel, collection, committedBy, registry, today,
                   uuids, started>>
    /\ UNCHANGED clinic

\* --------------------------------------------------------------- chat_loop
\* One pass of the while loop up to the first suspension of process_query:
\* 'quit' (in any case) or a keyboard interrupt leaves the loop, an empty line
\* reads on, anything else starts a turn.
Lower(text) ==
    [i \in 1..Len(text) |-> IF text[i] \in {"QUIT", "Quit"} THEN "quit" ELSE text[i]]

\* What input() returns, stripped: a question, an empty line, or quit.
ConsoleInputs == {Query(started + 1), <<>>, <<"quit">>, <<"QUIT">>}

chat_loop(input, interrupted) ==
    /\ mode = "cli" /\ app = "chatting" /\ turn[1].pc = "idle" /\ running = 0
    /\ IF interrupted \/ Lower(input) = <<"quit">>
       THEN /\ app' = "left_loop"
            /\ UNCHANGED <<turn, started>>
       ELSE IF input = <<>>
       THEN UNCHANGED <<app, turn, started>>
       ELSE /\ started < MaxTurns
            /\ started' = started + 1
            /\ turn' = [turn EXCEPT ![1] =
                          [IdleTurn EXCEPT !.pc = "await_list_tools",
                                           !.query = input,
                                           !.session_id = client.memory_id]]
            /\ UNCHANGED app
    /\ UNCHANGED <<mode, client, channel, collection, committedBy, registry, today, uuids,
                   running>>
    /\ UNCHANGED clinic

\* main() of client.py after chat_loop returns: the finally clause runs cleanup.
main_finally ==
    /\ mode = "cli" /\ app = "left_loop"
    /\ LET r == cleanup(client, channel) IN
       /\ client' = r.client
       /\ channel' = r.channel
    /\ app' = "stopped"
    /\ UNCHANGED <<mode, collection, committedBy, registry, today, uuids, started,
                   running, turn>>
    /\ UNCHANGED clinic

\* ------------------------------------------------- the store, out of band
\* clear() called on the session's history by an operator (the orchestration
\* loop never calls it).
history_clear ==
    /\ app \in {"serving", "chatting"} /\ HasRecord(collection, client.memory_id)
    /\ collection' = clear(collection, client.memory_id)
    /\ committedBy' = clear(committedBy, client.memory_id)
    /\ UNCHANGED <<mode, app, client, channel, registry, today, uuids, started,
                   running, turn>>
    /\ UNCHANGED clinic

\* The session's record deleted by another user of the database while the
\* client, and with it the history object, lives on.
record_removed ==
    /\ app \in {"serving", "chatting"} /\ HasRecord(collection, client.memory_id)
    /\ collection' = remove_record(collection, client.memory_id)
    /\ committedBy' = remove_record(committedBy, client.memory_id)
    /\ UNCHANGED <<mode, app, client, channel, registry, today, uuids, started,
                   running, turn>>
    /\ UNCHANGED clinic

\* ---- manage_appointment (src/utils/appointment_tool.py) ----

\* The texts manage_appointment returns.
ErrRequired == "error: username and id_card are required"
ErrIdCard == "error: malformed id_card"
ErrExists == "error: this user already has an appointment"
ErrNoToken == "error: no access token"
ErrNoSelector == "error: give appointment_id or username and id_card"
ErrVerification == "error: verification failed or token expired"
ErrNothing == "error: nothing to change"
ErrUnsupported == "error: unsupported action"
ErrDatabase == "error: database"
Added == "ok: added"
Updated == "ok: updated"
Deleted == "ok: deleted"

Errors ==
    {ErrRequired, ErrIdCard, ErrExists, ErrNoToken, ErrNoSelector, ErrVerification,
     ErrNothing, ErrUnsupported, ErrDatabase}

\* The arguments of a call. An argument left out is falsy: the empty text, or
\* 0 for appointment_id; department alone is tested against None itself.
\* date and time are stored and changed the way department is and are left out.
IdCard == [i \in 1..IdCardShort |-> "1"] \o <<"0", "1", "X">>

\* Who a call names: nobody, ann, bob, or ann with an id card that is no id card.
Selectors ==
    {[username |-> NoArg, id_card |-> <<>>],
     [username |-> "ann", id_card |-> IdCard],
     [username |-> "bob", id_card |-> IdCard],
     [username |-> "ann", id_card |-> <<"1", "2", "3">>]}

Departments == {NoDepartment, "surgery"}

Tokens == {NoToken} \cup {Token(n) : n \in 1..MaxRows}

Call(action, who, department, appointment_id, access_token) ==
    [action |-> action, username |-> who.username, id_card |-> who.id_card,
     department |-> department, appointment_id |-> appointment_id,
     access_token |-> access_token]

\* A call for an action the tool does not have.
ExportCall ==
    Call("export", [username |-> NoArg, id_card |-> <<>>], NoDepartment, 0, NoToken)

Arguments ==
    {Call("add", w, d, 0, NoToken) : w \in Selectors, d \in Departments}
    \cup {Call("update", w, d, i, k) :
             w \in Selectors, d \in Departments, i \in 0..MaxRows, k \in Tokens}
    \cup {Call("delete", w, NoDepartment, i, k) :
             w \in Selectors, i \in 0..MaxRows, k \in Tokens}
    \cup {ExportCall}

\* The call returns text; its connection is closed.
Return(text) ==
    [pc |-> "idle", args |-> [action |-> "none"], existing |-> NoRow, result |-> text,
     call |-> 0]

\* The call has fetched `existing` and goes on to its write.
Proceed(args, existing) ==
    [pc |-> "selected", args |-> args, existing |-> existing, result |-> "none",
     call |-> 0]

\* The rows a call designates: the one with its appointment_id or, without an
\* id, those of its username and id_card.
Designated(r, args) ==
    IF args.appointment_id # 0
    THEN r.id = args.appointment_id
    ELSE r.username = args.username /\ r.id_card = args.id_card

\* The SELECT without its test of the token's age.
query_sql_any_age(args) ==
    {r \in appointment : r.access_token = args.access_token /\ Designated(r, args)}

\* SELECT * FROM appointment WHERE access_token = %s AND token_expire_at > NOW(),
\* narrowed by id or by username and id_card.
query_sql(args) ==
    {r \in appointment :
        /\ r.access_token = args.access_token
        /\ r.token_expire_at > clock
        /\ Designated(r, args)}

\* The columns an update sets, decided against the row it fetched.
update_fields(args, existing) ==
    (IF args.username # NoArg /\ args.username # existing.username
     THEN {"username"} ELSE {})
    \cup (IF args.id_card # <<>> /\ args.id_card # existing.id_card
          THEN {"id_card"} ELSE {})
    \cup (IF args.department # NoDepartment THEN {"department"} ELSE {})

\* The add branch up to its INSERT.
add_select(args) ==
    IF args.username = NoArg \/ args.id_card = <<>> THEN {Return(ErrRequired)}
    ELSE IF ~id_card_match(args.id_card) THEN {Return(ErrIdCard)}
    ELSE IF \E r \in appointment :
                r.username = args.username /\ r.id_card = args.id_card
         THEN {Return(ErrExists)}
         ELSE {Proceed(args, NoRow)}

\* The token and selector checks and the SELECT the update and delete branches
\* share; fetchone() hands over one of the rows the query matched.
token_select(args) ==
    IF args.access_token = NoToken THEN {[error |-> ErrNoToken]}
    ELSE IF args.appointment_id = 0 /\ (args.username = NoArg \/ args.id_card = <<>>)
         THEN {[error |-> ErrNoSelector]}
    ELSE IF query_sql(args) = {} THEN {[error |-> ErrVerification]}
    ELSE {[error |-> "none", existing |-> r] : r \in query_sql(args)}

\* The update branch up to its UPDATE.
update_select(args) ==
    {IF f.error # "none" THEN Return(f.error)
     ELSE IF "id_card" \in update_fields(args, f.existing)
             /\ ~id_card_match(args.id_card)
          THEN Return(ErrIdCard)
     ELSE IF update_fields(args, f.existing) = {} THEN Return(ErrNothing)
     ELSE Proceed(args, f.existing) : f \in token_select(args)}

\* The delete branch up to its DELETE.
delete_select(args) ==
    {IF f.error # "none" THEN Return(f.error) ELSE Proceed(args, f.existing) :
        f \in token_select(args)}

\* The inserts connections other than c have selected for and not yet run.
Inserting == {c \in Connections :
                 connection[c].pc = "selected" /\ connection[c].args.action = "add"}

\* manage_appointment, from its call to the first write (or to its return,
\* when there is none): get_connection(), the checks of the branch, its SELECT.
\* `up` is whether the database answers; any exception becomes an error text.
manage_appointment(c, args, up) ==
    /\ mode = "tool"
    /\ connection[c].pc = "idle"
    /\ opened < MaxOpened
    /\ opened' = opened + 1
    /\ args.action = "add" => lastrowid + Cardinality(Inserting) < MaxRows
    /\ \E next \in (IF ~up THEN {Return(ErrDatabase)}
                    ELSE IF args.action = "add" THEN add_select(args)
                    ELSE IF args.action = "update" THEN update_select(args)
                    ELSE IF args.action = "delete" THEN delete_select(args)
                    ELSE {Return(ErrUnsupported)}) :
          connection' = [connection EXCEPT ![c] = [next EXCEPT !.call = opened']]
    /\ UNCHANGED <<appointment, lastrowid, clock>>
    /\ UNCHANGED agent

\* INSERT INTO appointment ... ; commit. The token and its expiry are made just
\* before the statement runs.
add_commit(c) ==
    /\ connection[c].pc = "selected"
    /\ connection[c].args.action = "add"
    /\ lastrowid' = lastrowid + 1
    /\ appointment' = appointment \cup
          {[id |-> lastrowid', username |-> connection[c].args.username,
            id_card |-> connection[c].args.id_card,
            department |-> connection[c].args.department,
            access_token |-> Token(lastrowid'),
            token_expire_at |-> clock + TokenLifetime]}
    /\ connection' = [connection EXCEPT
                         ![c] = [Return(Added) EXCEPT !.call = connection[c].call]]
    /\ UNCHANGED <<clock, opened>>
    /\ UNCHANGED agent

\* The row r after UPDATE appointment SET <fields> has been applied to it.
update_row(r, args, fields) ==
    [r EXCEPT !.username = IF "username" \in fields THEN args.username ELSE @,
              !.id_card = IF "id_card" \in fields THEN args.id_card ELSE @,
              !.department = IF "department" \in fields THEN args.department ELSE @]

\* UPDATE appointment SET ... WHERE id = existing['id'] ; commit.
update_where(c, r) == r.id = connection[c].existing.id

update_commit(c) ==
    /\ connection[c].pc = "selected"
    /\ connection[c].args.action = "update"
    /\ appointment' =
          {IF update_where(c, r)
           THEN update_row(r, connection[c].args,
                           update_fields(connection[c].args, connection[c].existing))
           ELSE r : r \in appointment}
    /\ connection' = [connection EXCEPT
                         ![c] = [Return(Updated) EXCEPT !.call = connection[c].call]]
    /\ UNCHANGED <<lastrowid, clock, opened>>
    /\ UNCHANGED agent

\* DELETE FROM appointment WHERE id = existing['id'] ; commit.
delete_commit(c) ==
    /\ connection[c].pc = "selected"
    /\ connection[c].args.action = "delete"
    /\ appointment' = {r \in appointment : r.id # connection[c].existing.id}
    /\ connection' = [connection EXCEPT
                         ![c] = [Return(Deleted) EXCEPT !.call = connection[c].call]]
    /\ UNCHANGED <<lastrowid, clock, opened>>
    /\ UNCHANGED agent

\* Time passes: tokens age.
time_passes ==
    /\ mode = "tool"
    /\ clock < MaxClock
    /\ clock' = clock + 1
    /\ UNCHANGED <<appointment, lastrowid, connection, opened>>
    /\ UNCHANGED agent

\* ------------------------------------------------------- specifications
\* The interactive program, its tool use: one turn at a time, a completion
\* carries up to MaxCalls calls; the tool list is free to change from turn to
\* turn, the day stays as it is.
Next ==
    \/ Construct
    \/ main_connect
    \/ main_finally
    \/ \E input \in ConsoleInputs, interrupted \in BOOLEAN : chat_loop(input, interrupted)
    \/ \E ok \in BOOLEAN, tools \in {<<>>, <<"lookup">>} : list_tools_done(1, ok, tools)
    \/ \E ok \in BOOLEAN : load_history(1, ok)
    \/ \E fileExists \in BOOLEAN : render_prompt(1, fileExists, today)
    \/ \E r \in FirstCompletions(MaxCalls) : first_completion(1, r)
    \/ dispatch_tool(1)
    \/ \E o \in ToolOutcomes \cup ToolRejections : tool_done(1, o)
    \/ \E r \in SecondCompletions : second_completion(1, r)
    \/ \E storeFails \in 0..2 : commit(1, storeFails)
    \/ reply(1)

Spec == Init /\ [][Next]_vars

\* The interactive program, its turns over time: the model answers in text,
\* the tool list and the day are free to change from turn to turn, and other
\* users of the database clear or delete the session's record.
NextChat ==
    \/ Construct
    \/ main_connect
    \/ main_finally
    \/ \E input \in ConsoleInputs, interrupted \in BOOLEAN : chat_loop(input, interrupted)
    \/ \E ok \in BOOLEAN, tools \in {<<>>, <<"lookup">>} : list_tools_done(1, ok, tools)
    \/ \E ok \in BOOLEAN : load_history(1, ok)
    \/ \E fileExists \in BOOLEAN, now \in today..MaxDay : render_prompt(1, fileExists, now)
    \/ \E r \in FirstCompletions(0) : first_completion(1, r)
    \/ \E storeFails \in 0..2 : commit(1, storeFails)
    \/ reply(1)
    \/ history_clear
    \/ record_removed

SpecChat == InitChat /\ [][NextChat]_vars

\* The HTTP application: requests in flight together, each with a session id
\* of its own or none; a completion carries at most one tool call.
NextHttp ==
    \/ Construct
    \/ lifespan_startup
    \/ lifespan_shutdown
    \/ \E t \in Slots, q \in {Query(started + 1), <<>>}, sid \in RequestIds \cup {NoSession} :
          chat_endpoint(t, q, sid)
    \/ \E t \in Slots, ok \in BOOLEAN : list_tools_done(t, ok, registry)
    \/ \E t \in Slots, ok \in BOOLEAN : load_history(t, ok)
    \/ \E t \in Slots, fileExists \in BOOLEAN : render_prompt(t, fileExists, today)
    \/ \E t \in Slots, r \in FirstCompletions(1) : first_completion(t, r)
    \/ \E t \in Slots : dispatch_tool(t)
    \/ \E t \in Slots, o \in ToolOutcomes \cup ToolRejections : tool_done(t, o)
    \/ \E t \in Slots, r \in SecondCompletions : second_completion(t, r)
    \/ \E t \in Slots, storeFails \in 0..2 : commit(t, storeFails)
    \/ \E t \in Slots : reply(t)

SpecHttp == InitHttp /\ [][NextHttp]_vars

\* The appointment tool on its own (a database that is down fails every call
\* alike, so one call stands for them): calls of manage_appointment on two
\* connections, interleaved statement by statement, while time passes. The
\* table starts empty, or with what adds for ann and then bob, made just
\* before, left in it.
Booked(n) ==
    {[id |-> i, username |-> IF i = 1 THEN "ann" ELSE "bob", id_card |-> IdCard,
      department |-> NoDepartment, access_token |-> Token(i),
      token_expire_at |-> TokenLifetime] : i \in 1..n}

InitAppointments ==
    /\ mode = "tool"
    /\ Boot
    /\ \E n \in {0, 1, 2} :
          /\ appointment = Booked(n)
          /\ lastrowid = n
    /\ collection = <<>>
    /\ committedBy = <<>>

NextAppointments ==
    \/ \E c \in Connections, args \in Arguments : manage_appointment(c, args, TRUE)
    \/ \E c \in Connections : manage_appointment(c, ExportCall, FALSE)
    \/ \E c \in Connections : add_commit(c)
    \/ \E c \in Connections : update_commit(c)
    \/ \E c \in Connections : delete_commit(c)
    \/ time_passes

SpecAppointments == InitAppointments /\ [][NextAppointments]_vars

\* ------------------------------------------------------------------ claims
\* The session's persisted history, as the history object reads it.
Persisted == messages(collection, client.memory_id)

\* text holds part as a run of consecutive tokens
Contains(text, part) ==
    \E i \in 1..(Len(text) - Len(part) + 1) : SubSeq(text, i, i + Len(part) - 1) = part

\* The last min(Len(s), k) elements of s, in order.
Window(s, k) == SubSeq(s, IF Len(s) > k THEN Len(s) - k + 1 ELSE 1, Len(s))

\* A call of process_query ends in this step (a request rejected for its empty
\* query never calls it).
TurnEnds(t) ==
    /\ turn[t].pc \notin {"idle", "done"}
    /\ turn'[t].pc = "done"

\* C1: every call of process_query returns a text and grows the persisted
\* history by exactly two messages, the user message carrying the query and
\* then the assistant message carrying the returned text; the store is not
\* written before the call ends.
C1_TurnCommitsPair ==
    [][\A t \in Slots :
          /\ (turn[t].pc \notin {"idle", "done"} /\ ~TurnEnds(t)) => collection' = collection
          /\ TurnEnds(t) =>
                /\ turn'[t].result.kind = "returned"
                /\ Persisted' = Persisted \o <<HumanMessage(turn[t].query),
                                                AIMessage(turn'[t].result.text)>>]_vars

\* C2: the history a turn loads is the window of the K most recent persisted
\* messages, in stored order.
C2_ReplayWindow ==
    \A t \in Slots :
        turn[t].pc = "render_prompt" => turn[t].history = Window(Persisted, K)

\* The first completion of turn t answered with a message without tool calls.
NoToolCalls(t) ==
    /\ turn[t].requests # <<>>
    /\ turn[t].requests[1].answer = "message"
    /\ turn[t].tool_calls = <<>>

\* The assistant message the first completion returned, in the live list.
FirstAnswer(t) == turn[t].messages[Len(turn[t].requests[1].messages) + 1]

\* C3: a turn whose first completion returns no tool calls makes exactly one
\* completion request, returns the first completion's text, and commits that
\* text as the assistant message.
C3_NoToolTurnVerbatim ==
    \A t \in Slots :
        (turn[t].pc = "done" /\ NoToolCalls(t)) =>
            /\ Len(turn[t].requests) = 1
            /\ turn[t].result = [kind |-> "returned", text |-> FirstAnswer(t).content]
            /\ Persisted # <<>>
            /\ Persisted[Len(Persisted)] = AIMessage(FirstAnswer(t).content)

\* The messages of the live list after the assistant message of the first
\* completion.
AfterAssistant(t) ==
    SubSeq(turn[t].messages, Len(turn[t].requests[1].messages) + 2, Len(turn[t].messages))

HasToolCalls(t) == turn[t].requests # <<>> /\ turn[t].tool_calls # <<>>

\* C4: at the end of a turn whose first completion returned M >= 1 tool
\* calls, the live list holds, after the assistant message, exactly M
\* tool-result messages, the i-th carrying the id of the i-th call.
C4_EveryCallAnswered ==
    \A t \in Slots :
        (turn[t].pc = "done" /\ HasToolCalls(t)) =>
            /\ FirstAnswer(t).role = "assistant"
            /\ Len(AfterAssistant(t)) = Len(turn[t].tool_calls)
            /\ \A i \in 1..Len(turn[t].tool_calls) :
                  /\ AfterAssistant(t)[i].role = "tool"
                  /\ AfterAssistant(t)[i].tool_call_id = turn[t].tool_calls[i].id

IsToolFailure(m) ==
    m.role = "tool" /\ Len(m.content) > 0 /\ SubSeq(m.content, 1, 1) = ToolFailure(<<>>)

\* C5: at the end of a turn in which call_tool raised for some call, every
\* call of the turn was invoked and the synthesis completion was requested
\* with a message list holding the failure text.
C5_ToolFailureContinues ==
    \A t \in Slots :
        (turn[t].pc = "done" /\ HasToolCalls(t)) =>
            \A i \in 1..Len(AfterAssistant(t)) :
                IsToolFailure(AfterAssistant(t)[i]) =>
                    /\ Len(turn[t].invoked) = Len(turn[t].tool_calls)
                    /\ Len(turn[t].requests) = 2
                    /\ turn[t].requests[2].kind = "synthesis"
                    /\ \E j \in 1..Len(turn[t].requests[2].messages) :
                          turn[t].requests[2].messages[j] = AfterAssistant(t)[i]

CompletionFailed(t) ==
    \E i \in 1..Len(turn[t].requests) : turn[t].requests[i].answer # "message"

\* C6: a turn in which a completion call failed returns an apology holding
\* the error's description; a turn makes at most two completion requests, at
\* most one of each kind.
C6_CompletionFailureApology ==
    \A t \in Slots :
        /\ Len(turn[t].requests) <= 2
        /\ \A i, j \in 1..Len(turn[t].requests) :
              turn[t].requests[i].kind = turn[t].requests[j].kind => i = j
        /\ (turn[t].pc = "done" /\ CompletionFailed(t)) =>
              \E i \in 1..Len(turn[t].requests) :
                  /\ turn[t].requests[i].answer # "message"
                  /\ turn[t].result = [kind |-> "returned",
                                       text |-> Apology(turn[t].requests[i].err)]
                  /\ Contains(turn[t].result.text, turn[t].requests[i].err)

\* C7: process_query never raises to its caller.
C7_NeverRaises ==
    \A t \in Slots : turn[t].result.kind # "raised"

\* The history of turn t is loaded and its model input assembled.
Assembled(t) ==
    turn[t].pc \in {"first_completion", "dispatch_tool", "await_tool",
                    "second_completion", "commit"}

Carried(sid) == sid.src = "given"

\* C8: of two requests that carry different session ids, the history loaded
\* for the turn of one holds no message committed by the turn of the other,
\* and the two turns have not appended to one persisted history.
C8_SessionsIndependent ==
    /\ \A t \in Slots :
          (Assembled(t) /\ Carried(turn[t].session_id)) =>
              \A i \in 1..Len(turn[t].origins) :
                  Carried(turn[t].origins[i]) => turn[t].origins[i] = turn[t].session_id
    /\ \A sid \in DOMAIN committedBy :
          \A i, j \in 1..Len(committedBy[sid]) :
              (Carried(committedBy[sid][i]) /\ Carried(committedBy[sid][j])) =>
                  committedBy[sid][i] = committedBy[sid][j]

\* C9: a request without session_id runs under a fresh uuid and its model
\* input is the system message and the request's user message, nothing else.
C9_NoSessionIdIsStateless ==
    \A t \in Slots :
        (Assembled(t) /\ turn[t].session_id.src = "uuid") =>
            /\ turn[t].history = <<>>
            /\ Len(turn[t].requests) >= 1 =>
                  /\ Len(turn[t].requests[1].messages) = 2
                  /\ turn[t].requests[1].messages[1].role = "system"
                  /\ turn[t].requests[1].messages[2] =
                        [role |-> "user", content |-> turn[t].query]

\* The program has ended and the client object is gone.
Ended == app \in {"config_error", "startup_failed", "stopped"}

\* C10: the channel is acquired at most once and, once the program has
\* ended, it is closed, released exactly as often as acquired, and nothing
\* is left on the exit stack.
C10_ChannelReleased ==
    /\ channel.acquired <= 1
    /\ channel.released <= channel.acquired
    /\ Ended =>
          /\ ~channel.open
          /\ channel.released = channel.acquired
          /\ client.exit_stack = <<>>

\* A read of the session's history happens in this step of turn t.
Reads(t) == turn[t].pc = "load_history" /\ turn'[t].pc = "render_prompt"

\* C11: a read of a session's history leaves the store as it was, and the
\* sequence it returned is the sequence a second read made right after it
\* returns.
C11_ReadNeverMutates ==
    [][\A t \in Slots :
          Reads(t) =>
              /\ collection' = collection
              /\ turn'[t].history = messages(collection', client'.memory_id)]_vars

\* A turn has just read a history that holds messages.
C11_Witness ==
    \E t \in Slots :
        /\ turn[t].pc = "render_prompt"
        /\ Len(turn[t].history) >= 2
        /\ turn[t].history = Persisted

IsPrefix(a, b) == Len(a) <= Len(b) /\ SubSeq(b, 1, Len(a)) = a

\* A step of the program itself (startup, shutdown, or a step of a turn), as
\* opposed to a step of another user of the store.
ProgramStep == turn' # turn \/ app' # app

\* The system prompt of turn t is rendered and put first in this step.
Refreshes(t) == turn[t].pc = "render_prompt" /\ turn'[t].pc # "render_prompt"

\* C12: no step of the program removes a session's record or removes,
\* reorders or rewrites a stored message: each record's stored sequence
\* before the step is a prefix of the one after it; and the step that
\* refreshes the system prompt writes nothing.
C12_AppendOnly ==
    [][/\ ProgramStep =>
            \A sid \in DOMAIN collection :
                /\ sid \in DOMAIN collection'
                /\ IsPrefix(collection[sid], collection'[sid])
       /\ \A t \in Slots : Refreshes(t) => collection' = collection]_vars

\* A turn has committed its pair onto a history that already held a turn.
C12_Witness ==
    \E t \in Slots :
        /\ turn[t].pc = "done"
        /\ turn[t].committed = 2
        /\ Len(Persisted) >= 4

\* Turn t makes its appends in this step, n of them without an error.
Appends(t, n) ==
    /\ turn[t].pc = "commit" /\ turn'[t].pc = "done"
    /\ turn'[t].committed = n

\* C13: an append made without an error persists its message, whether or not
\* the session's record existed when it was made: a read made right after
\* the appends of a turn returns them as the last messages of the session.
C13_AppendCreatesRecord ==
    [][\A t \in Slots :
          /\ Appends(t, 1) =>
                /\ Persisted' # <<>>
                /\ Persisted'[Len(Persisted')] = HumanMessage(turn[t].query)
          /\ Appends(t, 2) =>
                /\ Len(Persisted') >= 2
                /\ SubSeq(Persisted', Len(Persisted') - 1, Len(Persisted')) =
                      <<HumanMessage(turn[t].query), AIMessage(turn[t].final_output)>>]_vars

\* The constructor found no API key and raised.
NoApiKey == app = "config_error"

\* C14: the construction that finds no API key writes nothing to the store
\* and leaves the tool channel alone; after it no session id is chosen, the
\* channel was never acquired, no turn was started or is running, and the
\* program stays in that state.
C14_MissingKeyIsFatal ==
    /\ [](NoApiKey =>
            /\ client.memory_id = NoSession
            /\ uuids = 0
            /\ channel = [open |-> FALSE, acquired |-> 0, released |-> 0]
            /\ client.exit_stack = <<>>
            /\ started = 0
            /\ AllIdle)
    /\ [][/\ NoApiKey' => (collection' = collection /\ channel' = channel)
          /\ NoApiKey => NoApiKey']_vars

\* The program was started without an API key.
C14_Witness == NoApiKey

\* The loop of chat_loop is running: reading a line or handling one.
InLoop == mode = "cli" /\ app = "chatting"

\* This step is a pass of the loop that read 'quit' in some letter case, or
\* was interrupted from the keyboard.
QuitOrInterrupt ==
    \E input \in ConsoleInputs, interrupted \in BOOLEAN :
        /\ interrupted \/ Lower(input) = <<"quit">>
        /\ chat_loop(input, interrupted)

\* C15: in chat_loop, the step after a turn has ended, with a text or with
\* an exception, puts the loop back at reading a line; the loop is left only
\* by a pass that read 'quit' or was interrupted; a turn is started only for
\* a line that is not empty, and a pass of the loop itself writes nothing to
\* the store.
C15_LoopSurvivesFailures ==
    [][InLoop =>
          /\ turn[1].pc = "done" => (InLoop' /\ turn'[1].pc = "idle")
          /\ ~InLoop' => QuitOrInterrupt
          /\ turn[1].pc = "idle" =>
                /\ collection' = collection
                /\ turn'[1].pc # "idle" => turn'[1].query # <<>>]_vars

\* A turn of the interactive loop has ended with an exception.
C15_Witness ==
    /\ InLoop
    /\ turn[1].pc = "done"
    /\ turn[1].result.kind = "raised"

\* A call of process_query for turn t has ended.
QueryEnded(t) == turn[t].pc = "done" /\ turn[t].result.kind # "rejected"

Synthesized(t) ==
    \E i \in 1..Len(turn[t].requests) : turn[t].requests[i].kind = "synthesis"

\* C16: a turn that has ended after reaching its first completion made that
\* request exactly once, with the tool descriptors of the turn; it made a
\* second request exactly
\* when the first response carried a tool call, and that request carried the
\* first request's messages, the assistant message and one tool-result
\* message per call, and no tool descriptors.
C16_CompletionsPerTurn ==
    \A t \in Slots :
        (QueryEnded(t) /\ turn[t].requests # <<>>) =>
            /\ turn[t].requests[1].kind = "tool_selection"
            /\ turn[t].requests[1].tools = turn[t].available_tools
            /\ \A i \in 2..Len(turn[t].requests) : turn[t].requests[i].kind = "synthesis"
            /\ Synthesized(t) <=> turn[t].tool_calls # <<>>
            /\ Synthesized(t) =>
                  /\ Len(turn[t].requests) = 2
                  /\ turn[t].requests[2].tools = <<>>
                  /\ Len(turn[t].requests[2].messages) =
                        Len(turn[t].requests[1].messages) + 1 + Len(turn[t].tool_calls)
                  /\ turn[t].requests[2].messages =
                        turn[t].requests[1].messages \o <<FirstAnswer(t)>> \o AfterAssistant(t)

\* C17: in a turn whose first completion returned tool calls, the calls
\* invoked so far are the first calls of the assistant message, in its order;
\* a call is invoked only when every call before it has its tool-result in
\* the live list (so at most one invocation is outstanding, and one is
\* outstanding exactly while call_tool is awaited); and the i-th tool-result
\* message carries the id of the i-th call.
C17_ToolCallsInOrder ==
    \A t \in Slots :
        HasToolCalls(t) =>
            LET calls == turn[t].tool_calls
                inv == turn[t].invoked
                res == AfterAssistant(t)
            IN /\ Len(inv) <= Len(calls)
               /\ \A i \in 1..Len(inv) : inv[i].name = calls[i].name
               /\ Len(inv) = Len(res) + (IF turn[t].pc = "await_tool" THEN 1 ELSE 0)
               /\ \A i \in 1..Len(res) :
                     /\ res[i].role = "tool"
                     /\ res[i].tool_call_id = calls[i].id

\* Two calls to different tools were invoked and both have their result.
C17_Witness ==
    \E t \in Slots :
        /\ turn[t].pc = "second_completion"
        /\ Len(turn[t].tool_calls) >= 2
        /\ turn[t].tool_calls[1].name # turn[t].tool_calls[2].name
        /\ Len(AfterAssistant(t)) = Len(turn[t].tool_calls)

Unparseable(arguments) == json_loads(arguments).raised # "no"

\* C18: at the end of a turn whose first completion returned tool calls,
\* every call was invoked, those whose argument payload could not be parsed
\* (malformed text, or no payload) with the empty argument set, and the
\* synthesis completion was requested.
C18_UnparsedArgumentsDegrade ==
    \A t \in Slots :
        (QueryEnded(t) /\ HasToolCalls(t)) =>
            /\ Len(turn[t].invoked) = Len(turn[t].tool_calls)
            /\ \A i \in 1..Len(turn[t].invoked) :
                  Unparseable(turn[t].tool_calls[i].arguments) =>
                      turn[t].invoked[i] = [name |-> turn[t].tool_calls[i].name, args |-> "{}"]
            /\ Synthesized(t)

\* The message list turn t sends, or has sent, to its first completion.
Sent(t) ==
    IF turn[t].requests = <<>> THEN turn[t].messages ELSE turn[t].requests[1].messages

\* The loaded history as role/content messages, without the system message
\* it starts with, if it starts with one.
HistoryBody(t) ==
    LET h == safe_messages_to_dict(turn[t].history)
    IN IF h # <<>> /\ h[1].role = "system" THEN Tail(h) ELSE h

\* C19: the message list of a turn's first completion is one system message
\* holding the prompt rendered at the turn's own time, then the loaded
\* history in stored order (less a system message it started with, whose
\* place the new one takes), then the user message; no other message of the
\* list is a system message and the prompt is not that of a stored system
\* message; and the step that builds the list leaves the loaded history and
\* the store as they were.
C19_SystemPromptFresh ==
    /\ [](\A t \in Slots :
            Assembled(t) =>
                /\ Sent(t) = <<[role |-> "system",
                                content |-> get_system_prompt_from_file(today)]>>
                              \o HistoryBody(t)
                              \o <<[role |-> "user", content |-> turn[t].query]>>
                /\ \A i \in 2..Len(Sent(t)) : Sent(t)[i].role # "system"
                /\ \A i \in 1..Len(turn[t].history) :
                      turn[t].history[i].type = "system" =>
                          Sent(t)[1].content # turn[t].history[i].content)
    /\ [][\A t \in Slots :
            Refreshes(t) =>
                /\ turn'[t].history = turn[t].history
                /\ collection' = collection]_vars

\* A second turn, on a later day, over a history that starts with a system
\* message rendered earlier and holds the first turn's pair.
C19_Witness ==
    \E t \in Slots :
        /\ Assembled(t)
        /\ turn[t].requests # <<>>
        /\ started = 2
        /\ today = 2
        /\ Len(turn[t].history) >= 5
        /\ turn[t].history[1].type = "system"

\* C20: the tool descriptors a turn offers to its first completion are those
\* its own list_tools call returned, whatever was listed before; and a turn
\* that has gone past its first completion has requested it, also when the
\* list was empty.
C20_ToolsRequeried ==
    \A t \in Slots :
        /\ turn[t].pc \in {"load_history", "render_prompt", "first_completion"} =>
              turn[t].available_tools = registry
        /\ turn[t].requests # <<>> =>
              /\ turn[t].requests[1].kind = "tool_selection"
              /\ turn[t].requests[1].tools = registry
        /\ turn[t].pc = "commit" => turn[t].requests # <<>>

\* The second turn of a run found the tool list empty, unlike the list the
\* client saw when it connected, and requested its completion.
C20_Witness ==
    \E t \in Slots :
        /\ started = 2
        /\ registry = <<>>
        /\ turn[t].requests # <<>>
        /\ turn[t].requests[1].tools = <<>>

\* The tool-result message m tells of a failed call: the failure text made
\* from an exception, or the text of the executor's rejection.
DescribesFailure(m) ==
    m.role = "tool" /\ (IsToolFailure(m) \/ m.content = ErrUnknownTool)

\* C21: at the end of a turn, every tool call of the first completion whose
\* name is not among the descriptors fetched for the turn was dispatched to
\* the executor under that name, its tool-result message tells of the
\* failure, and the turn went on to its synthesis completion.
C21_UnlistedToolDispatched ==
    \A t \in Slots :
        (QueryEnded(t) /\ HasToolCalls(t)) =>
            \A i \in 1..Len(turn[t].tool_calls) :
                ~Listed(turn[t].tool_calls[i].name, turn[t].available_tools) =>
                    /\ i <= Len(turn[t].invoked)
                    /\ turn[t].invoked[i].name = turn[t].tool_calls[i].name
                    /\ i <= Len(AfterAssistant(t))
                    /\ AfterAssistant(t)[i].tool_call_id = turn[t].tool_calls[i].id
                    /\ DescribesFailure(AfterAssistant(t)[i])
                    /\ Synthesized(t)

\* The turns that have started and not yet handed their result to the caller
\* (a request rejected for its empty query starts no turn).
InFlight == {t \in Slots : turn[t].pc # "idle" /\ turn[t].result.kind # "rejected"}

\* C22: at most one turn is in flight on the client's session at a time, and
\* so the history a turn assembled its model input from is the session's
\* persisted history until the turn commits.
C22_OneTurnInFlight ==
    /\ Cardinality(InFlight) <= 1
    /\ \A t \in Slots : Assembled(t) => turn[t].history = Persisted

\* C23: the persisted history of the client's session has even length, its
\* messages are user and assistant messages in turn, starting with a user
\* message, and the two messages of each pair were written by one turn.
C23_HistoryIsPairs ==
    /\ Len(Persisted) % 2 = 0
    /\ \A i \in 1..Len(Persisted) :
          Persisted[i].type = (IF i % 2 = 1 THEN "human" ELSE "ai")
    /\ \A i \in 1..Len(Persisted) :
          (i % 2 = 1 /\ i < Len(Persisted)) =>
              committedBy[client.memory_id][i] = committedBy[client.memory_id][i + 1]

\* The synthesis completion of turn t was requested and failed.
SynthesisFailed(t) ==
    /\ Len(turn[t].requests) = 2
    /\ turn[t].requests[2].kind = "synthesis"
    /\ turn[t].requests[2].answer # "message"

\* C24: a turn whose synthesis completion failed ends by returning the
\* apology that holds the error's text, with the pair (user message,
\* apology) as the last two messages of the persisted history; every tool
\* call of the turn was invoked once, and the tool results stay in the live
\* list only.
C24_SynthesisFailureCommits ==
    \A t \in Slots :
        (QueryEnded(t) /\ SynthesisFailed(t)) =>
            LET apology == Apology(turn[t].requests[2].err) IN
            /\ turn[t].result = [kind |-> "returned", text |-> apology]
            /\ Len(Persisted) >= 2
            /\ SubSeq(Persisted, Len(Persisted) - 1, Len(Persisted)) =
                  <<HumanMessage(turn[t].query), AIMessage(apology)>>
            /\ Len(turn[t].invoked) = Len(turn[t].tool_calls)
            /\ Len(AfterAssistant(t)) = Len(turn[t].tool_calls)

\* Two rows of the table carry the same (username, id_card) pair.
SamePair(r1, r2) == r1.username = r2.username /\ r1.id_card = r2.id_card

\* Call c runs its INSERT / its UPDATE in this step.
Inserts(c) == connection[c].pc = "selected" /\ connection[c].args.action = "add"
                 /\ connection'[c].pc = "idle"

\* C25: whatever manage_appointment calls have run, one at a time or
\* interleaved on two connections, the appointment table holds at most one
\* record for any (username, id_card) pair: no insert adds a record for a pair
\* that has one (such an add returns an error and the table stays as it was),
\* and no update leaves two records with the same pair.
C25_OneRecordPerPair ==
    /\ [](\A r1, r2 \in appointment : SamePair(r1, r2) => r1 = r2)
    /\ [][\A c \in Connections : Inserts(c) =>
             /\ \A r \in appointment : ~SamePair(r, connection[c].args)
             /\ connection'[c].result = Added]_vars

\* Connection c takes a call of manage_appointment in this step.
Calls(c) == connection[c].pc = "idle" /\ connection'[c].call # connection[c].call

\* Call c runs its UPDATE or its DELETE in this step.
Writes(c) ==
    /\ connection[c].pc = "selected"
    /\ connection[c].args.action \in {"update", "delete"}
    /\ connection'[c].pc = "idle"

\* The call presents no token, or none of the records it designates carries
\* the token it presents with time left on it.
Unauthorised(args) ==
    \/ args.access_token = NoToken
    \/ \A r \in appointment :
          Designated(r, args) =>
             r.access_token # args.access_token \/ r.token_expire_at <= clock

\* C26: an update or delete call with a missing token, an expired token or a
\* token that is not the one of the record its appointment_id (or its username
\* and id_card) designates returns an error and leaves the table as it was
\* (it never gets as far as its write, and a call that ends before its write
\* returns an error); the call that does write was given the token of the
\* record it fetched, and it changes or deletes that record and no other; and
\* nothing but an insert or such a write changes the table.
C26_TokenGatedWrites ==
    [][/\ \A c \in Connections : Calls(c) =>
             /\ appointment' = appointment
             /\ connection'[c].pc = "idle" => connection'[c].result \in Errors
             /\ (/\ connection'[c].pc = "selected"
                 /\ connection'[c].args.action \in {"update", "delete"})
                   => ~Unauthorised(connection'[c].args)
       /\ \A c \in Connections : Writes(c) =>
             LET existing == connection[c].existing
                 args == connection[c].args
             IN /\ args.access_token # NoToken
                /\ existing.access_token = args.access_token
                /\ Designated(existing, args)
                /\ \A r \in appointment : r.id = existing.id =>
                                             r.access_token = args.access_token
                /\ \A r \in appointment \cup appointment' :
                      r.id # existing.id => r \in appointment /\ r \in appointment'
                /\ connection'[c].result \in {Updated, Deleted}
       /\ appointment' # appointment =>
             \E c \in Connections : Writes(c) \/ Inserts(c)]_vars

\* With two records in the table, one call was turned away for its token and
\* another changed its record.
C26_Witness ==
    /\ Cardinality(appointment) = 2
    /\ connection[1].result = Updated
    /\ connection[2].result = ErrVerification
    /\ \E r \in appointment : r.department # NoDepartment

====
